---- MODULE Spec2Model ----
(***************************************************************************)
(* Model of tello_emg_control.py: the EMG signal thread                    *)
(* (TelloEMGControl.emg_control_loop with process_joystick and             *)
(* process_raw_emg), the keyboard loop on the main thread                  *)
(* (TelloEMGControl.keyboard_control) and the shutdown sequence of         *)
(* TelloEMGControl.run.                                                    *)
(*                                                                         *)
(* Numbers.  The program computes with floats; the model computes with     *)
(* exact rationals.  A joystick channel value v stands for v / One, a raw  *)
(* channel value is an integer amplitude.  A mean over the window is kept  *)
(* as the SUM of the window column (mean = sum / emg_buffer_size), and an  *)
(* intensity as a pair <<num, den>> standing for num / den.                *)
(***************************************************************************)
EXTENDS Integers, Sequences, FiniteSets, TLC

\* ---- program constants -------------------------------------------------
emg_buffer_size == 10
speed == 30
\* 1.0 in fixed-point units (the clamp literal of min(abs(x_value), 1.0))
One == 100
\* 0.2 in fixed-point units (the dead-zone literals 0.2 / -0.2)
threshold == 20
\* the divisor of "normalized = avg_value / 500.0"
raw_divisor == 500

\* ---- bounds ------------------------------------------------------------
\* samples fed to the smoothing window in SmoothSpec
MaxCount == 11
\* samples delivered by the inlet / the generator in Spec
MaxSamples == 1
\* takeoff() invocations in Spec
MaxTakeoffs == 2

\* channel-0 values of joystick samples (in 1/One) and raw amplitudes
JoyVals == {-250, 20, 1260}
RawVals == {-1250, 100, 6300}
\* a two-channel sample [x, y] and a one-channel sample [v]
JoystickSamples == {<<x, 5>> : x \in JoyVals}
RawSamples == {<<v>> : v \in RawVals}

VARIABLES
    emg_buffer,     \* self.emg_buffer: emg_buffer_size rows <<x, y>>
    is_flying,      \* self.is_flying
    running,        \* self.running
    stream_type,    \* self.stream_type
    emgPc,          \* position of the EMG thread
    avg,            \* sum of the averaged window column (mean * emg_buffer_size)
    command,        \* local command
    intensity,      \* local intensity <<num, den>>
    speed_scaled,   \* local speed_scaled
    mainPc,         \* position of the main thread (keyboard_control, run)
    keys,           \* pygame.key.get_pressed() of the current frame
    quitEvent,      \* a pygame.QUIT event is in this frame's event list
    is_rotating_clockwise,
    is_rotating_counterclockwise,
    \* ---- history (not program state) ----
    count,          \* samples processed so far
    emgSends,       \* send_rc_control invocations of the EMG thread so far
    observed,       \* the last min(emg_buffer_size, count) axis values, oldest first
    prev,           \* the classification before the current one
    calls,          \* takeoff/land/end invocations on the vehicle, in order
    grounded,       \* no takeoff() returned yet, or a land() invoked since
    sent,           \* the last send_rc_control invocation: who, pitch, yaw, raised
    shutdownAt,     \* Len(calls) when quit/shutdown was first processed, -1 before
    shutdownFlying, \* is_flying at that moment
    quitAirborne,   \* quit (q or window close) was processed while is_flying
    frameYaws,      \* yaw values sent by the keyboard task in the current frame
    frameCW,        \* r held and is_flying at this frame's clockwise block
    prevCW,         \* frameCW of the previous frame
    faulted         \* a vehicle call raised on, or an interrupt hit, the main thread

vars == <<emg_buffer, is_flying, running, stream_type, emgPc, avg,
          command, intensity, speed_scaled, mainPc, keys, quitEvent,
          is_rotating_clockwise, is_rotating_counterclockwise,
          count, emgSends, observed, prev, calls, grounded, sent, shutdownAt,
          shutdownFlying, quitAirborne, frameYaws, frameCW, prevCW, faulted>>

emgVars == <<emg_buffer, emgPc, avg, command, intensity, speed_scaled,
             count, emgSends>>
mainVars == <<mainPc, keys, quitEvent, is_rotating_clockwise,
              is_rotating_counterclockwise, frameYaws, frameCW, prevCW>>
smoothHist == <<observed, prev>>

\* ---- arithmetic helpers ------------------------------------------------
Abs(n) == IF n < 0 THEN -n ELSE n
Min(a, b) == IF a <= b THEN a ELSE b

RECURSIVE SumSeq(_)
SumSeq(s) == IF s = <<>> THEN 0 ELSE Head(s) + SumSeq(Tail(s))

RECURSIVE SeqMin(_)
SeqMin(s) == IF Len(s) = 1 THEN s[1] ELSE Min(s[1], SeqMin(Tail(s)))

RECURSIVE SeqMax(_)
SeqMax(s) == IF Len(s) = 1 THEN s[1] ELSE -Min(-s[1], -SeqMax(Tail(s)))

\* int(): truncation toward zero of num / den, den > 0
IntTrunc(num, den) == IF num >= 0 THEN num \div den ELSE -((-num) \div den)

\* round(): nearest integer of num / den, ties to even, num >= 0, den > 0
Round(num, den) ==
    LET q == num \div den
        r == num % den
    IN  IF 2 * r < den THEN q
        ELSE IF 2 * r > den THEN q + 1
        ELSE IF q % 2 = 0 THEN q ELSE q + 1

\* ---- the smoothing window ----------------------------------------------
\* variant: the window starts filled with ones (np.ones)
OnesBuffer == [i \in 1..emg_buffer_size |-> <<1, 1>>]

\* np.zeros((self.emg_buffer_size, 2))
ZeroBuffer == [i \in 1..emg_buffer_size |-> <<0, 0>>]

\* variant: the roll is forgotten, the last row is overwritten in place
PushNoRoll(buf, row) == [i \in 1..emg_buffer_size |->
                            IF i = emg_buffer_size THEN row ELSE buf[i]]

\* np.roll(buf, -1, axis=0) followed by buf[-1] = row
Push(buf, row) == [i \in 1..emg_buffer_size |->
                      IF i = emg_buffer_size THEN row ELSE buf[i + 1]]

\* column j of the window
Col(buf, j) == [i \in 1..emg_buffer_size |-> buf[i][j]]

\* variant: the thresholds are inclusive (x = T is forward, x = -T backward)
process_joystick_inclusive(buf, joystick_data) ==
    LET nb == [i \in 1..emg_buffer_size |->
                  IF i = emg_buffer_size THEN joystick_data ELSE buf[i + 1]]
        s  == SumSeq([i \in 1..emg_buffer_size |-> nb[i][1]])
        n  == emg_buffer_size
    IN  IF s <= -(threshold * n)
        THEN [buf |-> nb, avg |-> s, command |-> "backward",
              intensity |-> <<Min(Abs(s), One * n), One * n>>]
        ELSE IF s >= threshold * n
        THEN [buf |-> nb, avg |-> s, command |-> "forward",
              intensity |-> <<Min(Abs(s), One * n), One * n>>]
        ELSE [buf |-> nb, avg |-> s, command |-> "hover",
              intensity |-> <<0, One * n>>]

\* process_joystick: the new window, the sum behind x_value, the command and
\* the intensity
process_joystick(buf, joystick_data) ==
    LET nb == Push(buf, joystick_data)
        s  == SumSeq(Col(nb, 1))
        n  == emg_buffer_size
    IN  IF s < -(threshold * n)
        THEN [buf |-> nb, avg |-> s, command |-> "backward",
              intensity |-> <<Min(Abs(s), One * n), One * n>>]
        ELSE IF s > threshold * n
        THEN [buf |-> nb, avg |-> s, command |-> "forward",
              intensity |-> <<Min(Abs(s), One * n), One * n>>]
        ELSE [buf |-> nb, avg |-> s, command |-> "hover",
              intensity |-> <<0, One * n>>]

\* variant: the backward intensity forgets abs()
process_raw_emg_noabs(buf, emg_data) ==
    LET value == emg_data[1]
        nb == [i \in 1..emg_buffer_size |->
                  IF i = emg_buffer_size THEN <<0, value>> ELSE buf[i + 1]]
        s  == SumSeq([i \in 1..emg_buffer_size |-> nb[i][2]])
        d  == emg_buffer_size * raw_divisor
    IN  IF s * One > threshold * d
        THEN [buf |-> nb, avg |-> s, command |-> "forward",
              intensity |-> <<Min(s, d), d>>]
        ELSE IF s * One < -(threshold * d)
        THEN [buf |-> nb, avg |-> s, command |-> "backward",
              intensity |-> <<Min(s, d), d>>]
        ELSE [buf |-> nb, avg |-> s, command |-> "hover",
              intensity |-> <<0, d>>]

\* process_raw_emg: the first channel goes to column y; normalized is
\* s / (emg_buffer_size * raw_divisor)
process_raw_emg(buf, emg_data) ==
    LET value == emg_data[1]
        nb == Push(buf, <<0, value>>)
        s  == SumSeq(Col(nb, 2))
        d  == emg_buffer_size * raw_divisor
    IN  IF s * One > threshold * d
        THEN [buf |-> nb, avg |-> s, command |-> "forward",
              intensity |-> <<Min(s, d), d>>]
        ELSE IF s * One < -(threshold * d)
        THEN [buf |-> nb, avg |-> s, command |-> "backward",
              intensity |-> <<Min(Abs(s), d), d>>]
        ELSE [buf |-> nb, avg |-> s, command |-> "hover",
              intensity |-> <<0, d>>]

\* "if self.stream_type == 'EMGJoystick' or len(sample) == 2"
Process(buf, st, smp) ==
    IF st = "EMGJoystick" \/ Len(smp) = 2
    THEN process_joystick(buf, smp)
    ELSE process_raw_emg(buf, smp)

\* variant: the speed is rounded to the nearest integer
SpeedScaledRounded(inten) == Round(speed * inten[1], inten[2])

\* speed_scaled = int(self.speed * intensity)
SpeedScaled(inten) == IntTrunc(speed * inten[1], inten[2])


\* the samples a stream of the given type delivers: two channels for a
\* joystick stream and for the generator, one channel for a raw stream
SamplesFor(st) == IF st = "EMG" THEN RawSamples ELSE JoystickSamples

\* lines 342-346 (309-310 in simulation mode): process the sample and scale
\* the speed; the history keeps the previous classification and the recent
\* axis values
ApplySample(smp) ==
    LET r == Process(emg_buffer, stream_type, smp)
        o == Append(observed, smp[1])
    IN  /\ emg_buffer' = r.buf
        /\ avg' = r.avg
        /\ command' = r.command
        /\ intensity' = r.intensity
        /\ speed_scaled' = SpeedScaled(r.intensity)
        /\ count' = count + 1
        /\ emgSends' = emgSends
        /\ observed' = IF Len(o) > emg_buffer_size THEN Tail(o) ELSE o
        /\ prev' = IF count = 0 THEN {}
                   ELSE {[avg |-> avg, command |-> command,
                          intensity |-> intensity]}

\* ---- the state after TelloEMGControl.__init__ and the start of run ------
InitCommon ==
    /\ emg_buffer = ZeroBuffer
    /\ is_flying = FALSE
    /\ running = TRUE
    /\ avg = 0
    /\ command = "hover"
    /\ intensity = <<0, 1>>
    /\ speed_scaled = 0
    /\ keys = {}
    /\ quitEvent = FALSE
    /\ is_rotating_clockwise = FALSE
    /\ is_rotating_counterclockwise = FALSE
    /\ count = 0
    /\ emgSends = 0
    /\ observed = <<>>
    /\ prev = {}
    /\ calls = <<>>
    /\ grounded = TRUE
    /\ sent = {}
    /\ shutdownAt = -1
    /\ shutdownFlying = FALSE
    /\ quitAirborne = FALSE
    /\ frameYaws = <<>>
    /\ frameCW = FALSE
    /\ prevCW = FALSE
    /\ faulted = FALSE

\* ---- SmoothSpec: the signal path alone, fed sample after sample --------
SmoothInit ==
    /\ InitCommon
    /\ stream_type \in {"EMGJoystick", "EMG"}
    /\ emgPc = "process"
    /\ mainPc = "idle"

SmoothStep ==
    /\ count < MaxCount
    /\ \E smp \in SamplesFor(stream_type) :
          ApplySample(smp)
    /\ UNCHANGED <<is_flying, running, stream_type, emgPc, mainVars, calls,
                   grounded, sent, shutdownAt, shutdownFlying, quitAirborne, faulted>>

SmoothNext == SmoothStep

SmoothSpec == SmoothInit /\ [][SmoothNext]_vars

\* the smoothed scalar x the classification compares, as XNum / XDen:
\* x_value = mean(column x) on the joystick path,
\* normalized = mean(column y) / raw_divisor on the raw path
OnJoystickPath == stream_type # "EMG"
XNum == avg
XDen == IF OnJoystickPath THEN emg_buffer_size * One
        ELSE emg_buffer_size * raw_divisor

\* C5: the classification is forward iff x > T, backward iff x < -T and
\* hover iff -T <= x <= T (T = threshold / One = 0.2), on both paths; x
\* equal to T or to -T is hover.
C5_Classification ==
    count > 0 =>
        /\ command \in {"forward", "backward", "hover"}
        /\ (command = "forward") <=> (XNum * One > threshold * XDen)
        /\ (command = "backward") <=> (XNum * One < -(threshold * XDen))
        /\ (command = "hover") <=> (/\ XNum * One >= -(threshold * XDen)
                                    /\ XNum * One <= threshold * XDen)

C5_Witness ==
    /\ count > 0
    /\ XNum * One = threshold * XDen
    /\ command = "hover"
    /\ \E p \in prev : p.command = "hover"

\* C6: the intensity lies in [0,1], is min(|x|, 1) for forward and backward
\* and 0 for hover, and of two non-hover classifications the one with the
\* larger |x| has the larger or equal intensity.
C6_Intensity ==
    count > 0 =>
        /\ intensity[1] >= 0
        /\ intensity[1] <= intensity[2]
        /\ command # "hover" =>
              intensity[1] * XDen = Min(Abs(XNum), XDen) * intensity[2]
        /\ command = "hover" => intensity[1] = 0
        /\ \A p \in prev :
              (p.command # "hover" /\ command # "hover") =>
                 /\ (Abs(p.avg) <= Abs(avg)) =>
                       (p.intensity[1] * intensity[2]
                           <= intensity[1] * p.intensity[2])
                 /\ (Abs(avg) <= Abs(p.avg)) =>
                       (intensity[1] * p.intensity[2]
                           <= p.intensity[1] * intensity[2])

C6_Witness ==
    /\ count > 0
    /\ command = "backward"
    /\ Abs(XNum) > XDen
    /\ intensity[1] = intensity[2]
    /\ \E p \in prev : p.command = "backward" /\ Abs(p.avg) < XDen

\* C7 as stated: after count >= 1 samples the smoothed value lies between
\* the minimum and the maximum of the last min(N, count) observed values.
C7_Original ==
    count >= 1 =>
        /\ SeqMin(observed) * emg_buffer_size <= avg
        /\ avg <= SeqMax(observed) * emg_buffer_size

\* C7 amended: the window starts zero-filled, so the smoothed value lies
\* between the minimum and the maximum of the last min(N, count) observed
\* values, taken together with 0 while count < N.
C7_SmoothedInHull ==
    count >= 1 =>
        LET lo == IF count < emg_buffer_size
                  THEN Min(0, SeqMin(observed)) ELSE SeqMin(observed)
            hi == IF count < emg_buffer_size
                  THEN -Min(0, -SeqMax(observed)) ELSE SeqMax(observed)
        IN  /\ Len(observed) = Min(emg_buffer_size, count)
            /\ lo * emg_buffer_size <= avg
            /\ avg <= hi * emg_buffer_size

C7_Witness ==
    /\ count > emg_buffer_size
    /\ SeqMin(observed) < SeqMax(observed)
    /\ SeqMin(observed) > 0
    /\ SeqMin(observed) * emg_buffer_size < avg
    /\ avg < SeqMax(observed) * emg_buffer_size


\* ==== Spec: the EMG thread and the main thread, interleaved ==============
Init ==
    /\ InitCommon
    /\ stream_type \in {"EMGJoystick", "EMG", "SIMULATION"}
    /\ emgPc = "loop"
    /\ mainPc = "kb_loop"

\* variant: the pitch is passed in the up/down position of send_rc_control
SendRecThrottle(by, pitch, yaw, failed) ==
    [by |-> by, roll |-> 0, pitch |-> 0, throttle |-> pitch, yaw |-> yaw,
     failed |-> failed]

\* a send_rc_control(0, pitch, 0, yaw) invocation: left_right (roll) and
\* up_down (throttle) are the literal 0 at every call site
SendRec(by, pitch, yaw, failed) ==
    [by |-> by, roll |-> 0, pitch |-> pitch, throttle |-> 0, yaw |-> yaw,
     failed |-> failed]

mainHist == <<calls, grounded, shutdownAt, shutdownFlying, quitAirborne, faulted>>

\* ---- emg_control_loop ---------------------------------------------------
\* variant: the loop condition does not look at running ("while True:")
EmgLoopCheckForever ==
    /\ emgPc = "loop"
    /\ emgPc' = "pull"
    /\ UNCHANGED <<emg_buffer, avg, command, intensity, speed_scaled,
                   count, emgSends, smoothHist, is_flying, running,
                   stream_type, mainVars, mainHist, sent>>

\* "while self.running:" (line 295 in simulation mode, line 330 otherwise)
EmgLoopCheck ==
    /\ emgPc = "loop"
    /\ emgPc' = IF running THEN "pull" ELSE "done"
    /\ UNCHANGED <<emg_buffer, avg, command, intensity, speed_scaled,
                   count, emgSends, smoothHist, is_flying, running, stream_type,
                   mainVars, mainHist, sent>>

\* lines 332-346: pull_sample returns a sample, which is processed
\* (lines 297-310 in simulation mode: the generated sample)
EmgSample ==
    /\ emgPc = "pull"
    /\ count < MaxSamples
    /\ \E smp \in SamplesFor(stream_type) :
          ApplySample(smp)
    /\ emgPc' = "gate"
    /\ UNCHANGED <<is_flying, running, stream_type, mainVars, mainHist,
                   sent>>

\* line 332: pull_sample times out and returns no sample
EmgTimeout ==
    /\ emgPc = "pull"
    /\ stream_type # "SIMULATION"
    /\ emgPc' = "nosample"
    /\ UNCHANGED <<emg_buffer, avg, command, intensity, speed_scaled, count,
                   emgSends,
                   smoothHist, is_flying, running, stream_type, mainVars,
                   mainHist, sent>>

\* variant: the "continue" is missing, the stale command goes on to the gate
EmgContinueMissing ==
    /\ emgPc = "nosample"
    /\ emgPc' = "gate"
    /\ UNCHANGED <<emg_buffer, avg, command, intensity, speed_scaled, count,
                   emgSends,
                   smoothHist, is_flying, running, stream_type, mainVars,
                   mainHist, sent>>

\* lines 333-334: "if not sample: continue"
EmgContinue ==
    /\ emgPc = "nosample"
    /\ emgPc' = "loop"
    /\ UNCHANGED <<emg_buffer, avg, command, intensity, speed_scaled, count,
                   emgSends,
                   smoothHist, is_flying, running, stream_type, mainVars,
                   mainHist, sent>>

\* line 332 raises: "except Exception" (lines 363-365) ends the loop
EmgPullError ==
    /\ emgPc = "pull"
    /\ stream_type # "SIMULATION"
    /\ running' = FALSE
    /\ emgPc' = "done"
    /\ UNCHANGED <<emg_buffer, avg, command, intensity, speed_scaled,
                   count, emgSends, smoothHist, is_flying, stream_type, mainVars,
                   mainHist, sent>>

\* "if self.is_flying:" (line 313 / 349); when not flying, sleep and loop
EmgGate ==
    /\ emgPc = "gate"
    /\ emgPc' = IF is_flying THEN "send" ELSE "loop"
    /\ UNCHANGED <<emg_buffer, avg, command, intensity, speed_scaled,
                   count, emgSends, smoothHist, is_flying, running, stream_type,
                   mainVars, mainHist, sent>>

\* the pitch of lines 350-357 (314-321)
EmgPitch(cmd, scaled) ==
    IF cmd = "forward" THEN scaled
    ELSE IF cmd = "backward" THEN -scaled
    ELSE 0

\* lines 350-359 (314-323): send_rc_control returns, sleep, next iteration
EmgSend ==
    /\ emgPc = "send"
    /\ sent' = {SendRec("emg", EmgPitch(command, speed_scaled), 0, FALSE)}
    /\ emgSends' = emgSends + 1
    /\ emgPc' = "loop"
    /\ UNCHANGED <<emg_buffer, avg, command, intensity, speed_scaled,
                   count, smoothHist, is_flying, running, stream_type,
                   mainVars, mainHist>>

\* variant: the error handler also marks the vehicle as landed
EmgSendErrorLands ==
    /\ emgPc = "send"
    /\ sent' = {SendRec("emg", EmgPitch(command, speed_scaled), 0, TRUE)}
    /\ running' = IF stream_type = "SIMULATION" THEN running ELSE FALSE
    /\ is_flying' = FALSE
    /\ emgSends' = emgSends + 1
    /\ emgPc' = "done"
    /\ UNCHANGED <<emg_buffer, avg, command, intensity, speed_scaled,
                   count, smoothHist, stream_type, mainVars, mainHist>>

\* send_rc_control raises: lines 363-365 clear running and end the loop; in
\* simulation mode nothing catches it and the thread dies
EmgSendError ==
    /\ emgPc = "send"
    /\ sent' = {SendRec("emg", EmgPitch(command, speed_scaled), 0, TRUE)}
    /\ running' = IF stream_type = "SIMULATION" THEN running ELSE FALSE
    /\ emgSends' = emgSends + 1
    /\ emgPc' = "done"
    /\ UNCHANGED <<emg_buffer, avg, command, intensity, speed_scaled,
                   count, smoothHist, is_flying, stream_type, mainVars,
                   mainHist>>


\* ---- keyboard_control (main thread) -------------------------------------
Keys == {"t", "l", "r", "shift", "q"}

Takeoffs == Cardinality({i \in 1..Len(calls) : calls[i] = "takeoff"})

\* the first moment quit or shutdown is processed
MarkShutdown(n) ==
    /\ shutdownAt' = IF shutdownAt = -1 THEN n ELSE shutdownAt
    /\ shutdownFlying' = IF shutdownAt = -1 THEN is_flying ELSE shutdownFlying

\* "while self.running:" (line 400); on exit pygame.quit() and the finally
\* block of run
KbLoopCheck ==
    /\ mainPc = "kb_loop"
    /\ IF running
       THEN /\ mainPc' = "events"
            /\ prevCW' = frameCW
            /\ frameCW' = FALSE
            /\ frameYaws' = <<>>
       ELSE /\ mainPc' = "finally"
            /\ UNCHANGED <<prevCW, frameCW, frameYaws>>
    /\ UNCHANGED <<keys, quitEvent, is_rotating_clockwise,
                   is_rotating_counterclockwise, is_flying, running,
                   stream_type, emgVars, smoothHist, mainHist, sent>>

\* lines 402-408 without a pygame.QUIT event in the list
KbEventsNone ==
    /\ mainPc = "events"
    /\ quitEvent' = FALSE
    /\ mainPc' = "keys"
    /\ UNCHANGED <<keys, is_rotating_clockwise, is_rotating_counterclockwise,
                   frameYaws, frameCW, prevCW, is_flying, running,
                   stream_type, emgVars, smoothHist, mainHist, sent>>

\* lines 403-408: a pygame.QUIT event; land() is invoked when flying, else
\* running is cleared; "break" leaves the for loop only
KbEventsQuit ==
    /\ mainPc = "events"
    /\ quitEvent' = TRUE
    /\ MarkShutdown(Len(calls))
    /\ quitAirborne' = (quitAirborne \/ is_flying)
    /\ IF is_flying
       THEN /\ calls' = Append(calls, "land")
            /\ grounded' = TRUE
            /\ mainPc' = "ev_land"
            /\ UNCHANGED running
       ELSE /\ running' = FALSE
            /\ mainPc' = "keys"
            /\ UNCHANGED <<calls, grounded>>
    /\ UNCHANGED <<keys, is_rotating_clockwise, is_rotating_counterclockwise,
                   frameYaws, frameCW, prevCW, is_flying, stream_type,
                   emgVars, smoothHist, sent, faulted>>

\* line 406 returns; line 407 clears running
KbEventsLandReturn ==
    /\ mainPc = "ev_land"
    /\ running' = FALSE
    /\ mainPc' = "keys"
    /\ UNCHANGED <<keys, quitEvent, is_rotating_clockwise,
                   is_rotating_counterclockwise, frameYaws, frameCW, prevCW,
                   is_flying, stream_type, emgVars, smoothHist, mainHist,
                   sent>>

\* line 411: the keys held in this frame
KbGetPressed ==
    /\ mainPc = "keys"
    /\ \E k \in SUBSET Keys :
          /\ ("t" \in k /\ ~is_flying) => Takeoffs < MaxTakeoffs
          /\ keys' = k
    /\ mainPc' = "tl"
    /\ UNCHANGED <<quitEvent, is_rotating_clockwise,
                   is_rotating_counterclockwise, frameYaws, frameCW, prevCW,
                   is_flying, running, stream_type, emgVars, smoothHist,
                   mainHist, sent>>

\* variant: takeoff is not guarded by the flight state
TakeoffCondUnguarded(k, flying) == "t" \in k

\* line 414: "if keys[pygame.K_t] and not self.is_flying"
TakeoffCond(k, flying) == "t" \in k /\ ~flying

\* line 422: "elif keys[pygame.K_l] and self.is_flying"
LandCond(k, flying) == ~TakeoffCond(k, flying) /\ "l" \in k /\ flying

\* lines 414-427: takeoff() or land() is invoked, or neither
KbTakeoffLand ==
    /\ mainPc = "tl"
    /\ IF TakeoffCond(keys, is_flying)
       THEN /\ calls' = Append(calls, "takeoff")
            /\ mainPc' = "takeoff"
            /\ UNCHANGED grounded
       ELSE IF LandCond(keys, is_flying)
       THEN /\ calls' = Append(calls, "land")
            /\ grounded' = TRUE
            /\ mainPc' = "land"
       ELSE /\ mainPc' = "cw"
            /\ UNCHANGED <<calls, grounded>>
    /\ UNCHANGED <<keys, quitEvent, is_rotating_clockwise,
                   is_rotating_counterclockwise, frameYaws, frameCW, prevCW,
                   is_flying, running, stream_type, emgVars, smoothHist,
                   sent, shutdownAt, shutdownFlying, quitAirborne, faulted>>

\* lines 416-419: takeoff() returns, is_flying = True, sleep
KbTakeoffReturn ==
    /\ mainPc = "takeoff"
    /\ is_flying' = TRUE
    /\ grounded' = FALSE
    /\ mainPc' = "cw"
    /\ UNCHANGED <<keys, quitEvent, is_rotating_clockwise,
                   is_rotating_counterclockwise, frameYaws, frameCW, prevCW,
                   running, stream_type, emgVars, smoothHist, sent,
                   calls, shutdownAt, shutdownFlying, quitAirborne, faulted>>

\* lines 424-427: land() returns, is_flying = False, sleep
KbLandReturn ==
    /\ mainPc = "land"
    /\ is_flying' = FALSE
    /\ mainPc' = "cw"
    /\ UNCHANGED <<keys, quitEvent, is_rotating_clockwise,
                   is_rotating_counterclockwise, frameYaws, frameCW, prevCW,
                   running, stream_type, emgVars, smoothHist, sent,
                   mainHist>>

\* variant: releasing r clears the flag without sending the stop vector
RotateCWNoStop(k, flying, rotating) ==
    IF "r" \in k /\ flying THEN [yaw |-> <<speed>>, rotating |-> TRUE]
    ELSE IF rotating THEN [yaw |-> <<>>, rotating |-> FALSE]
    ELSE [yaw |-> <<>>, rotating |-> rotating]

\* lines 430-437: the yaw sent by the clockwise block (none: <<>>) and the
\* new is_rotating_clockwise
RotateCW(k, flying, rotating) ==
    IF "r" \in k /\ flying THEN [yaw |-> <<speed>>, rotating |-> TRUE]
    ELSE IF rotating THEN [yaw |-> <<0>>, rotating |-> FALSE]
    ELSE [yaw |-> <<>>, rotating |-> rotating]

\* lines 440-447: the same for the counter-clockwise block
RotateCCW(k, flying, rotating) ==
    IF ("r" \in k /\ "shift" \in k) /\ flying
    THEN [yaw |-> <<-speed>>, rotating |-> TRUE]
    ELSE IF rotating THEN [yaw |-> <<0>>, rotating |-> FALSE]
    ELSE [yaw |-> <<>>, rotating |-> rotating]

\* lines 430-437
KbRotateCW ==
    /\ mainPc = "cw"
    /\ LET r == RotateCW(keys, is_flying, is_rotating_clockwise)
       IN  /\ is_rotating_clockwise' = r.rotating
           /\ frameYaws' = frameYaws \o r.yaw
           /\ sent' = IF r.yaw = <<>> THEN sent
                          ELSE {SendRec("kb", 0, r.yaw[1], FALSE)}
    /\ frameCW' = ("r" \in keys /\ is_flying)
    /\ mainPc' = "ccw"
    /\ UNCHANGED <<keys, quitEvent, is_rotating_counterclockwise, prevCW,
                   is_flying, running, stream_type, emgVars, smoothHist,
                   mainHist>>

\* lines 440-447
KbRotateCCW ==
    /\ mainPc = "ccw"
    /\ LET r == RotateCCW(keys, is_flying, is_rotating_counterclockwise)
       IN  /\ is_rotating_counterclockwise' = r.rotating
           /\ frameYaws' = frameYaws \o r.yaw
           /\ sent' = IF r.yaw = <<>> THEN sent
                          ELSE {SendRec("kb", 0, r.yaw[1], FALSE)}
    /\ mainPc' = "quit"
    /\ UNCHANGED <<keys, quitEvent, is_rotating_clockwise, frameCW, prevCW,
                   is_flying, running, stream_type, emgVars, smoothHist,
                   mainHist>>

\* lines 450-458: q held: land() is invoked when flying, else running is
\* cleared and the loop left; q not held: delay, next frame (keys and the
\* event list are read again before their next use)
KbQuit ==
    /\ mainPc = "quit"
    /\ IF "q" \in keys
       THEN /\ MarkShutdown(Len(calls))
            /\ quitAirborne' = (quitAirborne \/ is_flying)
            /\ IF is_flying
               THEN /\ calls' = Append(calls, "land")
                    /\ grounded' = TRUE
                    /\ mainPc' = "q_land"
                    /\ UNCHANGED running
               ELSE /\ running' = FALSE
                    /\ mainPc' = "finally"
                    /\ UNCHANGED <<calls, grounded>>
            /\ UNCHANGED <<keys, quitEvent>>
       ELSE /\ mainPc' = "kb_loop"
            /\ keys' = {}
            /\ quitEvent' = FALSE
            /\ UNCHANGED <<running, calls, grounded, shutdownAt, shutdownFlying,
                           quitAirborne>>
    /\ UNCHANGED <<is_rotating_clockwise,
                   is_rotating_counterclockwise, frameYaws, frameCW, prevCW,
                   is_flying, stream_type, emgVars, smoothHist, sent,
                   faulted>>

\* line 453 returns; lines 454-455, 461
KbQuitLandReturn ==
    /\ mainPc = "q_land"
    /\ running' = FALSE
    /\ mainPc' = "finally"
    /\ UNCHANGED <<keys, quitEvent, is_rotating_clockwise,
                   is_rotating_counterclockwise, frameYaws, frameCW, prevCW,
                   is_flying, stream_type, emgVars, smoothHist, mainHist,
                   sent>>

\* a blocking vehicle call of keyboard_control (line 406, 416, 424 or 453)
\* raises, or is interrupted: the exception reaches run (lines 511-515)
KbCallError ==
    /\ mainPc \in {"ev_land", "takeoff", "land", "q_land"}
    /\ MarkShutdown(Len(calls))
    /\ faulted' = TRUE
    /\ mainPc' = "finally"
    /\ UNCHANGED <<keys, quitEvent, is_rotating_clockwise,
                   is_rotating_counterclockwise, frameYaws, frameCW, prevCW,
                   is_flying, running, stream_type, emgVars, smoothHist,
                   sent, calls, grounded, quitAirborne>>

\* send_rc_control of line 434 or 436 raises (the flag is set before the
\* send of line 434 and cleared after the send of line 436)
KbRotateCWError ==
    /\ mainPc = "cw"
    /\ LET r == RotateCW(keys, is_flying, is_rotating_clockwise)
       IN  /\ r.yaw # <<>>
           /\ is_rotating_clockwise' = TRUE
           /\ sent' = {SendRec("kb", 0, r.yaw[1], TRUE)}
    /\ MarkShutdown(Len(calls))
    /\ faulted' = TRUE
    /\ mainPc' = "finally"
    /\ UNCHANGED <<keys, quitEvent, is_rotating_counterclockwise, frameYaws,
                   frameCW, prevCW, is_flying, running, stream_type, emgVars,
                   smoothHist, calls, grounded, quitAirborne>>

\* send_rc_control of line 444 or 446 raises
KbRotateCCWError ==
    /\ mainPc = "ccw"
    /\ LET r == RotateCCW(keys, is_flying, is_rotating_counterclockwise)
       IN  /\ r.yaw # <<>>
           /\ is_rotating_counterclockwise' = TRUE
           /\ sent' = {SendRec("kb", 0, r.yaw[1], TRUE)}
    /\ MarkShutdown(Len(calls))
    /\ faulted' = TRUE
    /\ mainPc' = "finally"
    /\ UNCHANGED <<keys, quitEvent, is_rotating_clockwise, frameYaws,
                   frameCW, prevCW, is_flying, running, stream_type, emgVars,
                   smoothHist, calls, grounded, quitAirborne>>

\* KeyboardInterrupt between two vehicle calls of keyboard_control
\* (line 511)
KbInterrupt ==
    /\ mainPc \in {"kb_loop", "events", "keys", "tl", "cw", "ccw", "quit"}
    /\ MarkShutdown(Len(calls))
    /\ faulted' = TRUE
    /\ mainPc' = "finally"
    /\ UNCHANGED <<keys, quitEvent, is_rotating_clockwise,
                   is_rotating_counterclockwise, frameYaws, frameCW, prevCW,
                   is_flying, running, stream_type, emgVars, smoothHist,
                   sent, calls, grounded, quitAirborne>>

\* ---- run: the finally block ---------------------------------------------
\* lines 518-520: running = False; land() is invoked if is_flying (the
\* locals of keyboard_control are gone)
RunFinally ==
    /\ mainPc = "finally"
    /\ running' = FALSE
    /\ MarkShutdown(Len(calls))
    /\ IF is_flying
       THEN /\ calls' = Append(calls, "land")
            /\ grounded' = TRUE
            /\ mainPc' = "fin_land"
       ELSE /\ mainPc' = "fin_end"
            /\ UNCHANGED <<calls, grounded>>
    /\ keys' = {}
    /\ quitEvent' = FALSE
    /\ UNCHANGED <<is_rotating_clockwise,
                   is_rotating_counterclockwise, frameYaws, frameCW, prevCW,
                   is_flying, stream_type, emgVars, smoothHist, sent,
                   quitAirborne, faulted>>

\* line 520 returns
RunLandReturn ==
    /\ mainPc = "fin_land"
    /\ mainPc' = "fin_end"
    /\ UNCHANGED <<keys, quitEvent, is_rotating_clockwise,
                   is_rotating_counterclockwise, frameYaws, frameCW, prevCW,
                   is_flying, running, stream_type, emgVars, smoothHist,
                   sent, mainHist>>

\* line 520 raises: the exception leaves the finally block, end() is skipped
RunLandError ==
    /\ mainPc = "fin_land"
    /\ faulted' = TRUE
    /\ mainPc' = "aborted"
    /\ UNCHANGED <<keys, quitEvent, is_rotating_clockwise,
                   is_rotating_counterclockwise, frameYaws, frameCW, prevCW,
                   is_flying, running, stream_type, emgVars, smoothHist,
                   sent, calls, grounded, shutdownAt, shutdownFlying, quitAirborne>>

\* lines 521-531: end() is invoked on the vehicle handle
RunEnd ==
    /\ mainPc = "fin_end"
    /\ calls' = Append(calls, "end")
    /\ mainPc' = "done"
    /\ UNCHANGED <<keys, quitEvent, is_rotating_clockwise,
                   is_rotating_counterclockwise, frameYaws, frameCW, prevCW,
                   is_flying, running, stream_type, emgVars, smoothHist,
                   sent, grounded, shutdownAt, shutdownFlying, quitAirborne, faulted>>

EmgNext ==
    \/ EmgLoopCheck
    \/ EmgSample
    \/ EmgTimeout
    \/ EmgContinue
    \/ EmgPullError
    \/ EmgGate
    \/ EmgSend
    \/ EmgSendError

MainNext ==
    \/ KbLoopCheck
    \/ KbEventsNone
    \/ KbEventsQuit
    \/ KbEventsLandReturn
    \/ KbGetPressed
    \/ KbTakeoffLand
    \/ KbTakeoffReturn
    \/ KbLandReturn
    \/ KbRotateCW
    \/ KbRotateCCW
    \/ KbQuit
    \/ KbQuitLandReturn
    \/ KbCallError
    \/ KbRotateCWError
    \/ KbRotateCCWError
    \/ KbInterrupt
    \/ RunFinally
    \/ RunLandReturn
    \/ RunLandError
    \/ RunEnd

Next == EmgNext \/ MainNext

Spec == Init /\ [][Next]_vars


\* ---- steps that put a vector on the wire --------------------------------
\* the EMG thread leaves line 351/354/357 (315/318/321): sent' is its vector
EmgSendStep == emgPc = "send" /\ emgPc' # "send"
\* the keyboard task completed a send of lines 434-446: sent' is its vector
KbSendStep == mainPc \in {"cw", "ccw"} /\ frameYaws' # frameYaws

\* C1: the signal task never sends a non-zero pitch while the vehicle is
\* Grounded (no takeoff() has returned yet, or a land() was invoked and no
\* takeoff() has returned since); stated here for the runs in which no
\* vehicle call of the main thread raises and no interrupt arrives.
C1_NoPitchWhileGrounded ==
    [][(EmgSendStep /\ grounded /\ ~faulted) =>
          \A v \in sent' : v.pitch = 0]_vars

\* the vehicle calls from the moment quit was processed
ShutdownCalls == SubSeq(calls, shutdownAt + 1, Len(calls))

\* C2: quit processed while Airborne leads to exactly one land() followed by
\* exactly one end() over the whole shutdown; stated here for the runs in
\* which no vehicle call raises and no interrupt arrives.
C2_OneLandThenEnd ==
    (mainPc = "done" /\ quitAirborne /\ ~faulted) =>
        ShutdownCalls = <<"land", "end">>

\* C3: while Airborne with rotation held and a non-hover EMG intent, no
\* vector of the signal task has yaw 0 and no vector of the keyboard task
\* has pitch 0.
C3_AxesComposed ==
    [][/\ (/\ EmgSendStep
           /\ ~grounded
           /\ is_rotating_clockwise \/ is_rotating_counterclockwise
           /\ "r" \in keys
           /\ command # "hover") => \A v \in sent' : v.yaw # 0
       /\ (/\ KbSendStep
           /\ ~grounded
           /\ "r" \in keys
           /\ command # "hover") => \A v \in sent' : v.pitch # 0]_vars

\* C4: when a send of the signal task raises, running stays true, the signal
\* task goes on to its next iteration and is_flying is unchanged.
C4_SendFailureNotFatal ==
    [][(EmgSendStep /\ \E v \in sent' : v.failed) =>
          /\ running' = running
          /\ emgPc' = "loop"
          /\ is_flying' = is_flying]_vars

\* the pitch the claim expects for a classification, by a rounding rule
ExpectedPitch(Rnd(_, _), cmd, inten) ==
    IF cmd = "forward" THEN Rnd(speed * inten[1], inten[2])
    ELSE IF cmd = "backward" THEN -Rnd(speed * inten[1], inten[2])
    ELSE 0

\* C8 as stated: while Airborne the pitch sent by the signal task is
\* round(maxSpeed * intensity), signed by the intent, 0 for hover.
C8_Original ==
    [][(EmgSendStep /\ is_flying) =>
          \A v \in sent' : v.pitch = ExpectedPitch(Round, command, intensity)]_vars

\* C8 amended: while Airborne the pitch sent by the signal task is
\* maxSpeed * intensity truncated toward zero (int()), positive for forward,
\* negative for backward, 0 for hover.
C8_PitchTruncated ==
    [][(EmgSendStep /\ is_flying) =>
          \A v \in sent' : v.pitch = ExpectedPitch(IntTrunc, command, intensity)]_vars

C8_Witness ==
    /\ is_flying
    /\ emgPc = "loop"
    /\ command = "backward"
    /\ (speed * intensity[1]) % intensity[2] # 0
    /\ \E v \in sent : v.by = "emg" /\ ~v.failed /\ v.pitch < 0

\* the vehicle calls before quit or shutdown was processed
CallsBeforeQuit ==
    SubSeq(calls, 1, IF shutdownAt = -1 THEN Len(calls) ELSE shutdownAt)

\* the main thread handles takeoff/land of the current frame (lines 414-427)
TakeoffLandStep == mainPc = "tl" /\ mainPc' \in {"takeoff", "land", "cw"}

\* C9: a takeoff command while is_flying and a land command while not
\* is_flying issue no vehicle command of their kind and, held alone, change
\* nothing; the takeoff()/land() invocations before quit alternate, starting
\* with takeoff().
C9_TakeoffLandIdempotent ==
    /\ [](\A i \in 1..Len(CallsBeforeQuit) :
             CallsBeforeQuit[i] = IF i % 2 = 1 THEN "takeoff" ELSE "land")
    /\ [][TakeoffLandStep =>
             /\ ("t" \in keys /\ is_flying) =>
                   /\ mainPc' # "takeoff"
                   /\ "l" \notin keys =>
                         (calls' = calls /\ is_flying' = is_flying)
             /\ ("l" \in keys /\ ~is_flying) =>
                   /\ mainPc' # "land"
                   /\ "t" \notin keys =>
                         (calls' = calls /\ is_flying' = is_flying)]_vars

C9_Witness ==
    /\ mainPc = "cw"
    /\ keys = {"t"}
    /\ is_flying
    /\ shutdownAt = -1
    /\ calls = <<"takeoff", "land", "takeoff">>

\* C10: at the end of the rotation handling of a frame (line 449): if r was
\* held while is_flying the frame sent yaw = +speed; in the first frame
\* after, with r released, the frame sent yaw = 0; with r released and not
\* held while flying in the frame before, the frame sent nothing.
C10_ClockwiseYaw ==
    mainPc = "quit" =>
        /\ frameCW => \E i \in 1..Len(frameYaws) : frameYaws[i] = speed
        /\ ("r" \notin keys /\ prevCW) =>
              \E i \in 1..Len(frameYaws) : frameYaws[i] = 0
        /\ ("r" \notin keys /\ ~prevCW) => frameYaws = <<>>

C10_Witness ==
    /\ mainPc = "quit"
    /\ is_flying
    /\ "r" \notin keys
    /\ prevCW
    /\ frameYaws = <<0>>
    /\ \E v \in sent : v.by = "kb" /\ v.yaw = 0

\* a step of the EMG thread (every one of its actions moves emgPc)
EmgStep == emgPc' # emgPc

\* C11: is_flying is written by the keyboard task only: no step of the
\* signal task changes it.
C11_SignalNeverWritesFlying ==
    [][EmgStep => is_flying' = is_flying]_vars

C11_Witness ==
    /\ is_flying
    /\ emgPc = "done"
    /\ count > 0
    /\ \E v \in sent : v.by = "emg" /\ v.failed /\ v.pitch # 0

\* ---- LiveSpec: the LSL loop (lines 329-365) and the main thread, both
\* scheduled again and again; every pull and every vehicle call returns
\* (normally or by raising).  The inputs are a joystick stream of samples
\* [-2.5, 0.05], the key sets of LiveKeySets and at most LiveTakeoffs
\* takeoffs.
LiveTakeoffs == 1

LiveKeySets == {{}, {"t"}, {"l"}, {"q"}, {"r", "shift"}}

LiveInit ==
    /\ InitCommon
    /\ stream_type = "EMGJoystick"
    /\ emgPc = "loop"
    /\ mainPc = "kb_loop"

LiveEmg ==
    /\ EmgNext
    /\ emg_buffer'[emg_buffer_size][1] \in {0, -250}

LiveMain ==
    /\ MainNext
    /\ keys' \in LiveKeySets
    /\ Cardinality({i \in 1..Len(calls') : calls'[i] = "takeoff"})
          <= LiveTakeoffs

LiveNext == LiveEmg \/ LiveMain

LiveSpec ==
    LiveInit /\ [][LiveNext]_vars /\ WF_vars(LiveEmg) /\ WF_vars(LiveMain)

\* the main thread is inside the while loop of keyboard_control
InKeyboardLoop ==
    mainPc \in {"kb_loop", "events", "ev_land", "keys", "tl", "takeoff",
                "land", "cw", "ccw", "quit", "q_land"}

\* C12: once running is false both loops eventually stop; running stays
\* false, and a loop condition evaluated after that leaves the loop, so each
\* loop runs at most the rest of its current iteration.
C12_LoopsStop ==
    /\ (~running) ~> (emgPc = "done" /\ ~InKeyboardLoop)
    /\ [][/\ (~running) => ~running'
          /\ (~running /\ emgPc = "loop") => emgPc' \in {"loop", "done"}
          /\ (~running /\ mainPc = "kb_loop") =>
                mainPc' \in {"kb_loop", "finally"}]_vars

C12_Witness ==
    /\ ~running
    /\ emgPc = "done"
    /\ mainPc = "done"
    /\ quitEvent = FALSE
    /\ ~faulted
    /\ count > 0
    /\ \E i \in 1..Len(calls) : calls[i] = "takeoff"

\* C13 as stated: on every shutdown path, if is_flying when the shutdown
\* starts, land() is invoked before end(), and end() is invoked; the main
\* thread has finished in "done" (end() called) or "aborted" (an exception
\* left the finally block of run).
C13_LandThenEnd ==
    (mainPc \in {"done", "aborted"} /\ shutdownFlying) =>
        \E i, j \in 1..Len(calls) :
            /\ shutdownAt < i
            /\ i < j
            /\ calls[i] = "land"
            /\ calls[j] = "end"

\* C14 as stated: when the sample pull raises an error, the EMG thread treats
\* it like a timeout: running keeps its value and the thread goes on to
\* process a sample or to poll again.
C14_PullErrorKeepsPolling ==
    [][(emgPc = "pull" /\ emgPc' # "pull") =>
          (running' = running /\ emgPc' \in {"gate", "nosample"})]_vars

\* C15: the window holds emg_buffer_size rows, of which the last
\* min(emg_buffer_size, count) are the most recent samples in arrival order
\* and the rest are still zero; the smoothed value (avg / emg_buffer_size) is
\* determined by those samples alone, and after emg_buffer_size equal axis
\* values v it equals v.
AxisCol == Col(emg_buffer, IF OnJoystickPath THEN 1 ELSE 2)

C15_WindowFifo ==
    LET n == Len(observed)
    IN  /\ DOMAIN emg_buffer = 1..emg_buffer_size
        /\ n = Min(emg_buffer_size, count)
        /\ \A i \in 1..n : AxisCol[emg_buffer_size - n + i] = observed[i]
        /\ \A i \in 1..(emg_buffer_size - n) : AxisCol[i] = 0
        /\ count >= 1 => avg = SumSeq(observed)
        /\ (n = emg_buffer_size /\ \A i \in 1..n : observed[i] = observed[1])
              => avg = emg_buffer_size * observed[1]

\* more than emg_buffer_size samples have arrived, the last emg_buffer_size
\* are equal and the sample just evicted was a different one
C15_Witness ==
    /\ count > emg_buffer_size
    /\ \A i \in 1..Len(observed) : observed[i] = observed[1]
    /\ avg = emg_buffer_size * observed[1]
    /\ \E p \in prev : p.avg # avg

\* C16: the EMG thread has issued at most one send_rc_control per sample
\* received, and when pull_sample returns no sample the "continue" issues no
\* command, leaves the window unchanged and goes back to the loop condition.
C16_OneSendPerSample ==
    /\ [](emgSends <= count)
    /\ [][(emgPc = "nosample" /\ emgPc' # "nosample") =>
             /\ emgPc' = "loop"
             /\ emgSends' = emgSends
             /\ emg_buffer' = emg_buffer
             /\ \A v \in sent' : v.by = "emg" => v \in sent]_vars

\* a poll has timed out while airborne, after a sample that was acted on
C16_Witness ==
    /\ emgPc = "nosample"
    /\ is_flying
    /\ running
    /\ count >= 1
    /\ emgSends = count

\* C17 as stated: at the end of a frame in which r and left shift were held
\* while is_flying, every yaw the frame sent is -speed (none is +speed).
C17_CounterClockwiseOnly ==
    (mainPc = "quit" /\ is_flying /\ {"r", "shift"} \subseteq keys) =>
        \A i \in 1..Len(frameYaws) : frameYaws[i] = -speed

\* C18: every send_rc_control vector has left/right = 0 and up/down = 0, a
\* forward/backward and a yaw velocity of magnitude at most speed (30, inside
\* the -100..100 of the vehicle); the EMG thread sends yaw = 0 and the
\* keyboard sends forward/backward = 0.
C18_VectorShape ==
    /\ speed <= 100
    /\ \A v \in sent :
          /\ v.roll = 0
          /\ v.throttle = 0
          /\ Abs(v.pitch) <= speed
          /\ Abs(v.yaw) <= speed
          /\ v.by = "emg" => v.yaw = 0
          /\ v.by = "kb" => v.pitch = 0

\* the EMG thread has sent a saturated forward command: the mean 1.26 was
\* clamped to intensity 1.0
C18_Witness ==
    /\ intensity[1] = intensity[2]
    /\ Abs(avg) > intensity[2]
    /\ \E v \in sent : v.by = "emg" /\ v.pitch = speed /\ ~v.failed

\* C19 as stated: once end() has been invoked, neither thread invokes
\* takeoff(), land() or send_rc_control (shutdowns without an exception).
C19_NoCommandAfterEnd ==
    [][(~faulted /\ \E i \in 1..Len(calls) : calls[i] = "end") =>
          /\ calls' = calls
          /\ emgSends' = emgSends
          /\ frameYaws' = frameYaws]_vars

\* C20 as stated: while running is false the main thread invokes no
\* takeoff().
C20_NoTakeoffAfterShutdown ==
    [][(~running /\ Len(calls') > Len(calls)) =>
          calls'[Len(calls')] # "takeoff"]_vars

\* the main thread is inside a blocking takeoff() or land() call
InFlightCall == mainPc \in {"ev_land", "takeoff", "land", "q_land", "fin_land"}

\* the most recent takeoff()/land() invocation was takeoff()
LastWasTakeoff ==
    \E i \in 1..Len(calls) :
        /\ calls[i] = "takeoff"
        /\ \A j \in (i + 1)..Len(calls) : calls[j] # "land"

\* C21 as stated: whenever no takeoff() or land() is in progress (and none
\* has raised), is_flying holds exactly when the most recent completed
\* takeoff()/land() was takeoff(), also after the q and the window-close
\* handlers.
C21_FlagMatchesVehicle ==
    (~faulted /\ ~InFlightCall) => (is_flying <=> LastWasTakeoff)

====
